---- MODULE Spec2Model ----
(***************************************************************************)
(* Model of the car-wash bay state machine of src/src/lavadero.py (class   *)
(* Lavadero).  The object's private fields are the record `self`; every    *)
(* method is an operator from a bay record to the bay it leaves behind     *)
(* and the exception it raises ("ok" when it returns normally), and every  *)
(* public method is one action.  Money is a Python float of euros, that   *)
(* is an IEEE 754 double: it is modelled bit for bit, with the rounding of *)
(* every addition.                                                         *)
(***************************************************************************)
EXTENDS Integers, Sequences, FiniteSets

VARIABLES
    self,            \* the Lavadero object: its six private fields
    prev,            \* the object as it was when the last call was made
    op,              \* name of the last method called
    args,            \* arguments of the last call (<<>> when it takes none)
    resultado,       \* "ok" or the exception the last call raised
    retorno,         \* list returned by the last ejecutar_y_obtener_fases
    pedido,          \* arguments of the last hacerLavado that succeeded
    ingresos_inicio, \* self.ingresos when that hacerLavado succeeded
    avances,         \* avanzarFase calls made on an occupied bay since then
    cobros_ciclo,    \* how many of those calls changed self.ingresos
    ciclos,          \* number of hacerLavado calls that succeeded so far
    recorrido,       \* phases seen since then: after it and after each advance
    cobrados         \* options of the washes that advanced out of FASE_INACTIVO

vars == <<self, prev, op, args, resultado, retorno, pedido, ingresos_inicio,
          avances, cobros_ciclo, ciclos, recorrido, cobrados>>

(* Bound of the model: washes accepted over the life of the bay. *)
MaxCiclos == 3

(* ---------------- phase constants (lavadero.py 26-34) ------------------ *)
FASE_INACTIVO == 0
FASE_COBRANDO == 1
FASE_PRELAVADO_MANO == 2
FASE_ECHANDO_AGUA == 3
FASE_ENJABONANDO == 4
FASE_RODILLOS == 5
FASE_SECADO_AUTOMATICO == 6
FASE_SECADO_MANO == 7
FASE_ENCERADO == 8

(* ---------------- floats ------------------------------------------------ *)
(* A double x with x = 0 or 1 <= x < 128 is a whole number N of units of   *)
(* 2^-52 (x = N * 2^-52), kept in two limbs: N = hi * 2^29 + lo with       *)
(* 0 <= lo < 2^29.  Every amount of the program is in that range.          *)
LIMBO == 2^29

(* hi of the double 1.0. *)
UNO == 2^23

(* The float 0.0 of __init__. *)
CERO == [hi |-> 0, lo |-> 0]

(* The sum of two doubles as a real number, before it is rounded. *)
suma_exacta(x, y) ==
    [hi |-> x.hi + y.hi + ((x.lo + y.lo) \div LIMBO),
     lo |-> (x.lo + y.lo) % LIMBO]

(* The spacing of the doubles around x, in units of 2^-52: 2^e for        *)
(* 2^e <= x < 2^(e+1); below 2.0 every multiple of 2^-52 is a double.      *)
ulp(x) ==
    IF x.hi >= 64 * UNO THEN 64
    ELSE IF x.hi >= 32 * UNO THEN 32
    ELSE IF x.hi >= 16 * UNO THEN 16
    ELSE IF x.hi >= 8 * UNO THEN 8
    ELSE IF x.hi >= 4 * UNO THEN 4
    ELSE IF x.hi >= 2 * UNO THEN 2
    ELSE 1

(* Rounding of a real number to the nearest double, ties to the even      *)
(* mantissa (the IEEE 754 default, which Python uses).                     *)
redondear(x) ==
    LET u == ulp(x)
        r == x.lo % u
        abajo == x.lo - r
        sube == \/ 2 * r > u
                \/ (2 * r = u /\ (abajo \div u) % 2 = 1)
        arriba == abajo + u
    IN  IF sube
        THEN [hi |-> x.hi + (arriba \div LIMBO), lo |-> arriba % LIMBO]
        ELSE [hi |-> x.hi, lo |-> abajo]

(* x + y of two floats (the += of _cobrar). *)
suma(x, y) ==
    redondear(suma_exacta(x, y))

(* x <= y of two floats. *)
menor_o_igual(x, y) ==
    x.hi < y.hi \/ (x.hi = y.hi /\ x.lo <= y.lo)

(* ---------------- prices (lavadero.py 146-158) -------------------------- *)
(* The float literals 5.00, 1.50, 1.20 and 1.00.  1.20 is not a binary     *)
(* fraction: the literal is the double 0x3FF3333333333333.                 *)
PRECIO_BASE == [hi |-> 5 * UNO, lo |-> 0]
PRECIO_PRELAVADO == [hi |-> UNO + UNO \div 2, lo |-> 0]
PRECIO_SECADO == [hi |-> 10066329, lo |-> 322122547]
PRECIO_ENCERADO == [hi |-> UNO, lo |-> 0]

(* Guard of the loop of ejecutar_y_obtener_fases (lavadero.py 294). *)
LIMITE_PASOS == 15

(* ---------------- exceptions ------------------------------------------- *)
OK == "ok"
ERR_OCUPADO == "RuntimeError: lavadero ocupado"
ERR_ENCERADO == "ValueError: encerar sin secado a mano"
ERR_FASE == "RuntimeError: estado no valido"
ERR_BUCLE == "Exception: bucle infinito"

(* ---------------- methods ---------------------------------------------- *)

(* terminar() that leaves the bay marked as occupied. *)
terminar_sin_liberar(b) ==
    [b EXCEPT !.fase = FASE_INACTIVO,
              !.prelavado_a_mano = FALSE,
              !.secado_a_mano = FALSE,
              !.encerado = FALSE]

(* terminar() that also clears the accumulated income. *)
terminar_borra_ingresos(b) ==
    [b EXCEPT !.ingresos = CERO,
              !.fase = FASE_INACTIVO,
              !.ocupado = FALSE,
              !.prelavado_a_mano = FALSE,
              !.secado_a_mano = FALSE,
              !.encerado = FALSE]

(* terminar() that forgets to clear the waxing option. *)
terminar_sin_limpiar(b) ==
    [b EXCEPT !.fase = FASE_INACTIVO,
              !.ocupado = FALSE,
              !.prelavado_a_mano = FALSE,
              !.secado_a_mano = FALSE]

(* terminar(): back to the idle state; ingresos is not touched. *)
terminar(b) ==
    [b EXCEPT !.fase = FASE_INACTIVO,
              !.ocupado = FALSE,
              !.prelavado_a_mano = FALSE,
              !.secado_a_mano = FALSE,
              !.encerado = FALSE]

(* __init__(): the fields are initialised and terminar() is called. *)
init ==
    terminar([ingresos |-> CERO,
              fase |-> FASE_INACTIVO,
              ocupado |-> FALSE,
              prelavado_a_mano |-> FALSE,
              secado_a_mano |-> FALSE,
              encerado |-> FALSE])

(* The accepted bay with the hand dry and the waxing options stored in    *)
(* each other's field.                                                    *)
aceptado_cruzado(b, prelavado_a_mano, secado_a_mano, encerado) ==
    [b EXCEPT !.fase = FASE_INACTIVO,
              !.ocupado = TRUE,
              !.prelavado_a_mano = prelavado_a_mano,
              !.secado_a_mano = encerado,
              !.encerado = secado_a_mano]

(* The bay hacerLavado leaves when it accepts the wash. *)
aceptado(b, prelavado_a_mano, secado_a_mano, encerado) ==
    [b EXCEPT !.fase = FASE_INACTIVO,
              !.ocupado = TRUE,
              !.prelavado_a_mano = prelavado_a_mano,
              !.secado_a_mano = secado_a_mano,
              !.encerado = encerado]

(* hacerLavado with its two checks in the other order. *)
hacerLavado_valida_primero(b, prelavado_a_mano, secado_a_mano, encerado) ==
    IF ~secado_a_mano /\ encerado
    THEN [bay |-> b, exc |-> ERR_ENCERADO]
    ELSE IF b.ocupado
    THEN [bay |-> b, exc |-> ERR_OCUPADO]
    ELSE [bay |-> aceptado(b, prelavado_a_mano, secado_a_mano, encerado),
          exc |-> OK]

(* hacerLavado without the check of the service combination. *)
hacerLavado_sin_validar(b, prelavado_a_mano, secado_a_mano, encerado) ==
    IF b.ocupado
    THEN [bay |-> b, exc |-> ERR_OCUPADO]
    ELSE [bay |-> aceptado(b, prelavado_a_mano, secado_a_mano, encerado),
          exc |-> OK]

(* hacerLavado that tests the wrong argument in the combination check. *)
hacerLavado_valida_prelavado(b, prelavado_a_mano, secado_a_mano, encerado) ==
    IF b.ocupado
    THEN [bay |-> b, exc |-> ERR_OCUPADO]
    ELSE IF ~prelavado_a_mano /\ encerado
    THEN [bay |-> b, exc |-> ERR_ENCERADO]
    ELSE [bay |-> aceptado(b, prelavado_a_mano, secado_a_mano, encerado),
          exc |-> OK]

(* hacerLavado that bills the base price when it accepts the wash. *)
hacerLavado_cobra(b, prelavado_a_mano, secado_a_mano, encerado) ==
    IF b.ocupado
    THEN [bay |-> b, exc |-> ERR_OCUPADO]
    ELSE IF ~secado_a_mano /\ encerado
    THEN [bay |-> b, exc |-> ERR_ENCERADO]
    ELSE [bay |-> [aceptado(b, prelavado_a_mano, secado_a_mano, encerado)
                      EXCEPT !.ingresos = suma(b.ingresos, PRECIO_BASE)],
          exc |-> OK]

(* hacerLavado that stores the options before it checks the combination. *)
hacerLavado_parcial(b, prelavado_a_mano, secado_a_mano, encerado) ==
    IF b.ocupado
    THEN [bay |-> b, exc |-> ERR_OCUPADO]
    ELSE IF ~secado_a_mano /\ encerado
    THEN [bay |-> [b EXCEPT !.prelavado_a_mano = prelavado_a_mano,
                            !.secado_a_mano = secado_a_mano,
                            !.encerado = encerado],
          exc |-> ERR_ENCERADO]
    ELSE [bay |-> aceptado(b, prelavado_a_mano, secado_a_mano, encerado),
          exc |-> OK]

(* hacerLavado(prelavado_a_mano, secado_a_mano, encerado) *)
hacerLavado(b, prelavado_a_mano, secado_a_mano, encerado) ==
    IF b.ocupado
    THEN [bay |-> b, exc |-> ERR_OCUPADO]
    ELSE IF ~secado_a_mano /\ encerado
    THEN [bay |-> b, exc |-> ERR_ENCERADO]
    ELSE [bay |-> aceptado(b, prelavado_a_mano, secado_a_mano, encerado),
          exc |-> OK]

(* The amount _cobrar() computes from the stored options. *)
coste_lavado(b) ==
    LET base == PRECIO_BASE
        con_prelavado == IF b.prelavado_a_mano
                         THEN suma(base, PRECIO_PRELAVADO) ELSE base
        con_secado == IF b.secado_a_mano
                      THEN suma(con_prelavado, PRECIO_SECADO)
                      ELSE con_prelavado
    IN  IF b.encerado THEN suma(con_secado, PRECIO_ENCERADO) ELSE con_secado

(* _cobrar() that clears the hand pre-wash option once it is billed. *)
cobrar_consume(b) ==
    [b EXCEPT !.ingresos = suma(b.ingresos, coste_lavado(b)),
              !.prelavado_a_mano = FALSE]

(* _cobrar(): adds the amount to ingresos. *)
cobrar(b) ==
    [b EXCEPT !.ingresos = suma(b.ingresos, coste_lavado(b))]

(* The fork after FASE_COBRANDO that stays in it without a pre-wash. *)
fase_tras_cobrando_repite(b) ==
    IF b.prelavado_a_mano THEN FASE_PRELAVADO_MANO ELSE FASE_COBRANDO

(* The fork after FASE_COBRANDO with the branches the other way round. *)
fase_tras_cobrando_invertida(b) ==
    IF b.prelavado_a_mano THEN FASE_ECHANDO_AGUA ELSE FASE_PRELAVADO_MANO

(* The fork after FASE_COBRANDO. *)
fase_tras_cobrando(b) ==
    IF b.prelavado_a_mano THEN FASE_PRELAVADO_MANO ELSE FASE_ECHANDO_AGUA

(* The fork after the rollers that goes on to the waxing when selected. *)
fase_tras_rodillos_encera(b) ==
    IF b.encerado THEN FASE_ENCERADO
    ELSE IF b.secado_a_mano THEN FASE_SECADO_AUTOMATICO
    ELSE FASE_SECADO_MANO

(* The fork after the rollers that ignores the hand dry option. *)
fase_tras_rodillos_siempre_automatico(b) ==
    FASE_SECADO_AUTOMATICO

(* The fork after the rollers with the branches the other way round. *)
fase_tras_rodillos_corregida(b) ==
    IF b.secado_a_mano THEN FASE_SECADO_MANO ELSE FASE_SECADO_AUTOMATICO

(* The fork after FASE_RODILLOS, as written: hand dry selected leads to   *)
(* the automatic dry.                                                     *)
fase_tras_rodillos(b) ==
    IF b.secado_a_mano THEN FASE_SECADO_AUTOMATICO ELSE FASE_SECADO_MANO

(* The if/elif chain without the branch of FASE_SECADO_MANO. *)
transicion_sin_secado_mano(b) ==
    IF b.fase = FASE_INACTIVO
    THEN [bay |-> [cobrar(b) EXCEPT !.fase = FASE_COBRANDO], exc |-> OK]
    ELSE IF b.fase = FASE_COBRANDO
    THEN [bay |-> [b EXCEPT !.fase = fase_tras_cobrando(b)], exc |-> OK]
    ELSE IF b.fase = FASE_PRELAVADO_MANO
    THEN [bay |-> [b EXCEPT !.fase = FASE_ECHANDO_AGUA], exc |-> OK]
    ELSE IF b.fase = FASE_ECHANDO_AGUA
    THEN [bay |-> [b EXCEPT !.fase = FASE_ENJABONANDO], exc |-> OK]
    ELSE IF b.fase = FASE_ENJABONANDO
    THEN [bay |-> [b EXCEPT !.fase = FASE_RODILLOS], exc |-> OK]
    ELSE IF b.fase = FASE_RODILLOS
    THEN [bay |-> [b EXCEPT !.fase = fase_tras_rodillos(b)], exc |-> OK]
    ELSE IF b.fase = FASE_SECADO_AUTOMATICO
    THEN [bay |-> terminar(b), exc |-> OK]
    ELSE IF b.fase = FASE_ENCERADO
    THEN [bay |-> terminar(b), exc |-> OK]
    ELSE [bay |-> b, exc |-> ERR_FASE]

(* The if/elif chain of avanzarFase on an occupied bay. *)
transicion(b) ==
    IF b.fase = FASE_INACTIVO
    THEN [bay |-> [cobrar(b) EXCEPT !.fase = FASE_COBRANDO], exc |-> OK]
    ELSE IF b.fase = FASE_COBRANDO
    THEN [bay |-> [b EXCEPT !.fase = fase_tras_cobrando(b)], exc |-> OK]
    ELSE IF b.fase = FASE_PRELAVADO_MANO
    THEN [bay |-> [b EXCEPT !.fase = FASE_ECHANDO_AGUA], exc |-> OK]
    ELSE IF b.fase = FASE_ECHANDO_AGUA
    THEN [bay |-> [b EXCEPT !.fase = FASE_ENJABONANDO], exc |-> OK]
    ELSE IF b.fase = FASE_ENJABONANDO
    THEN [bay |-> [b EXCEPT !.fase = FASE_RODILLOS], exc |-> OK]
    ELSE IF b.fase = FASE_RODILLOS
    THEN [bay |-> [b EXCEPT !.fase = fase_tras_rodillos(b)], exc |-> OK]
    ELSE IF b.fase = FASE_SECADO_AUTOMATICO
    THEN [bay |-> terminar(b), exc |-> OK]
    ELSE IF b.fase = FASE_SECADO_MANO
    THEN [bay |-> terminar(b), exc |-> OK]
    ELSE IF b.fase = FASE_ENCERADO
    THEN [bay |-> terminar(b), exc |-> OK]
    ELSE [bay |-> b, exc |-> ERR_FASE]

(* avanzarFase() without the early return on an empty bay. *)
avanzarFase_sin_guarda(b) ==
    transicion(b)

(* avanzarFase(): nothing on an empty bay, else one step of the machine. *)
avanzarFase(b) ==
    IF ~b.ocupado
    THEN [bay |-> b, exc |-> OK]
    ELSE transicion(b)

(* The while loop of ejecutar_y_obtener_fases.  traza records the object  *)
(* after hacerLavado and after every avanzarFase of the loop.             *)
RECURSIVE bucle(_, _, _)
bucle(b, fases_visitadas, traza) ==
    IF ~b.ocupado
    THEN [bay |-> b, exc |-> OK, ret |-> fases_visitadas, traza |-> traza]
    ELSE IF Len(fases_visitadas) > LIMITE_PASOS
    THEN [bay |-> b, exc |-> ERR_BUCLE, ret |-> <<>>, traza |-> traza]
    ELSE LET r == avanzarFase(b) IN
         IF r.exc # OK
         THEN [bay |-> r.bay, exc |-> r.exc, ret |-> <<>>, traza |-> traza]
         ELSE bucle(r.bay, Append(fases_visitadas, r.bay.fase),
                    Append(traza, r.bay))

(* ejecutar_y_obtener_fases that does not record the phase found after   *)
(* hacerLavado.                                                           *)
ejecutar_sin_fase_inicial(b, prelavado, secado, encerado) ==
    LET h == hacerLavado(b, prelavado, secado, encerado) IN
    IF h.exc # OK
    THEN [bay |-> h.bay, exc |-> h.exc, ret |-> <<>>, traza |-> <<>>]
    ELSE bucle(h.bay, <<>>, <<h.bay>>)

(* ejecutar_y_obtener_fases(prelavado, secado, encerado) *)
ejecutar_y_obtener_fases(b, prelavado, secado, encerado) ==
    LET h == hacerLavado(b, prelavado, secado, encerado) IN
    IF h.exc # OK
    THEN [bay |-> h.bay, exc |-> h.exc, ret |-> <<>>, traza |-> <<>>]
    ELSE bucle(h.bay, <<h.bay.fase>>, <<h.bay>>)

(* ---------------- state machine ---------------------------------------- *)

Init ==
    /\ self = init
    /\ prev = init
    /\ op = "__init__"
    /\ args = <<>>
    /\ resultado = OK
    /\ retorno = <<>>
    /\ pedido = <<>>
    /\ ingresos_inicio = CERO
    /\ avances = 0
    /\ cobros_ciclo = 0
    /\ ciclos = 0
    /\ recorrido = <<>>
    /\ cobrados = <<>>

Terminar ==
    /\ self' = terminar(self)
    /\ prev' = self
    /\ op' = "terminar"
    /\ args' = <<>>
    /\ resultado' = OK
    /\ retorno' = <<>>
    /\ UNCHANGED <<pedido, ingresos_inicio, avances, cobros_ciclo, ciclos,
                   recorrido, cobrados>>

HacerLavado ==
    \E p \in BOOLEAN, s \in BOOLEAN, e \in BOOLEAN :
        LET r == hacerLavado(self, p, s, e) IN
        /\ r.exc = OK => ciclos < MaxCiclos
        /\ self' = r.bay
        /\ prev' = self
        /\ op' = "hacerLavado"
        /\ args' = <<p, s, e>>
        /\ resultado' = r.exc
        /\ retorno' = <<>>
        /\ IF r.exc = OK
           THEN /\ pedido' = <<p, s, e>>
                /\ ingresos_inicio' = self.ingresos
                /\ avances' = 0
                /\ cobros_ciclo' = 0
                /\ ciclos' = ciclos + 1
                /\ recorrido' = <<r.bay.fase>>
           ELSE UNCHANGED <<pedido, ingresos_inicio, avances, cobros_ciclo,
                            ciclos, recorrido>>
        /\ UNCHANGED cobrados

AvanzarFase ==
    LET r == avanzarFase(self) IN
    /\ self' = r.bay
    /\ prev' = self
    /\ op' = "avanzarFase"
    /\ args' = <<>>
    /\ resultado' = r.exc
    /\ retorno' = <<>>
    /\ avances' = IF self.ocupado THEN avances + 1 ELSE avances
    /\ cobros_ciclo' = IF r.bay.ingresos # self.ingresos
                       THEN cobros_ciclo + 1 ELSE cobros_ciclo
    /\ recorrido' = IF self.ocupado /\ r.exc = OK
                    THEN Append(recorrido, r.bay.fase) ELSE recorrido
    /\ cobrados' = IF self.ocupado /\ self.fase = FASE_INACTIVO /\ r.exc = OK
                   THEN Append(cobrados, pedido) ELSE cobrados
    /\ UNCHANGED <<pedido, ingresos_inicio, ciclos>>

Ejecutar ==
    \E p \in BOOLEAN, s \in BOOLEAN, e \in BOOLEAN :
        LET r == ejecutar_y_obtener_fases(self, p, s, e) IN
        /\ hacerLavado(self, p, s, e).exc = OK => ciclos < MaxCiclos
        /\ self' = r.bay
        /\ prev' = self
        /\ op' = "ejecutar_y_obtener_fases"
        /\ args' = <<p, s, e>>
        /\ resultado' = r.exc
        /\ retorno' = r.ret
        /\ IF hacerLavado(self, p, s, e).exc = OK
           THEN /\ pedido' = <<p, s, e>>
                /\ ingresos_inicio' = self.ingresos
                /\ avances' = Len(r.traza) - 1
                /\ cobros_ciclo' =
                       Cardinality({i \in 1..(Len(r.traza) - 1) :
                           r.traza[i + 1].ingresos # r.traza[i].ingresos})
                /\ ciclos' = ciclos + 1
                /\ recorrido' = [i \in 1..Len(r.traza) |-> r.traza[i].fase]
                /\ cobrados' =
                       cobrados \o
                       [k \in 1..Cardinality({i \in 1..(Len(r.traza) - 1) :
                                    r.traza[i].ocupado
                                    /\ r.traza[i].fase = FASE_INACTIVO})
                           |-> <<p, s, e>>]
           ELSE UNCHANGED <<pedido, ingresos_inicio, avances, cobros_ciclo,
                            ciclos, recorrido, cobrados>>

Next == Terminar \/ HacerLavado \/ AvanzarFase \/ Ejecutar

Spec == Init /\ [][Next]_vars

(* ---------------- properties ------------------------------------------- *)

(* The price list of the specification, in cents, for the options <<hand  *)
(* pre-wash, hand dry, waxing>> of an accepted wash.                      *)
Tarifa(x) ==
    500 + (IF x[1] THEN 150 ELSE 0) + (IF x[2] THEN 120 ELSE 0)
        + (IF x[3] THEN 100 ELSE 0)

(* The float that stands for an amount of c cents (c = 0 or c >= 100):    *)
(* the double nearest to c / 100, which is what the decimal literal of    *)
(* the amount denotes (8.7 for 870).                                      *)
euros(c) ==
    LET a == (c % 100) * UNO
        b1 == (a % 100) * 2^15
        b2 == (b1 % 100) * 2^14
        x == [hi |-> (c \div 100) * UNO + (a \div 100),
              lo |-> (b1 \div 100) * 2^14 + (b2 \div 100)]
        u == ulp(x)
        r == x.lo % u
        abajo == x.lo - r
        resto == 100 * r + (b2 % 100)
        sube == \/ resto > 50 * u
                \/ (resto = 50 * u /\ (abajo \div u) % 2 = 1)
        arriba == abajo + u
    IN  IF sube
        THEN [hi |-> x.hi + (arriba \div LIMBO), lo |-> arriba % LIMBO]
        ELSE [hi |-> x.hi, lo |-> abajo]

(* The sequence of phases of a whole cycle for the options hand pre-wash  *)
(* p and hand dry s.                                                      *)
FasesEsperadas(p, s) ==
    <<FASE_INACTIVO, FASE_COBRANDO>>
    \o (IF p THEN <<FASE_PRELAVADO_MANO>> ELSE <<>>)
    \o <<FASE_ECHANDO_AGUA, FASE_ENJABONANDO, FASE_RODILLOS>>
    \o (IF s THEN <<FASE_SECADO_AUTOMATICO>> ELSE <<FASE_SECADO_MANO>>)
    \o <<FASE_INACTIVO>>

(* C1: after a successful hacerLavado (its options satisfy waxing =>      *)
(* hand dry) the bay cannot still be occupied once 9 avanzarFase calls    *)
(* have been made, and the call that frees it leaves the phase inactive.  *)
C1_CicloTerminaEnNueveAvances ==
    (pedido # <<>> /\ (pedido[3] => pedido[2])) =>
        /\ self.ocupado => avances < 9
        /\ (op = "avanzarFase" /\ prev.ocupado /\ ~self.ocupado) =>
               (self.fase = FASE_INACTIVO /\ avances <= 9)

(* C1 witness: a cycle with hand pre-wash freed by its 7th advance. *)
C1_Witness ==
    /\ op = "avanzarFase"
    /\ prev.ocupado
    /\ ~self.ocupado
    /\ self.fase = FASE_INACTIVO
    /\ avances = 7

(* C2: hacerLavado on an occupied bay, whatever its three arguments,      *)
(* raises the occupied error and changes none of the six fields.          *)
C2_OcupadoRechazaSinCambios ==
    (op = "hacerLavado" /\ prev.ocupado) =>
        (resultado = ERR_OCUPADO /\ self = prev)

(* C2 witness: waxing without hand dry requested in the middle of a cycle. *)
C2_Witness ==
    /\ op = "hacerLavado"
    /\ prev.ocupado
    /\ prev.fase = FASE_RODILLOS
    /\ args = <<FALSE, FALSE, TRUE>>
    /\ resultado = ERR_OCUPADO

(* C3 as stated: hacerLavado with waxing and without hand dry raises the  *)
(* invalid-combination error in every state and leaves ocupado unchanged. *)
C3_Original ==
    (op = "hacerLavado" /\ ~args[2] /\ args[3]) =>
        (resultado = ERR_ENCERADO /\ self.ocupado = prev.ocupado)

(* C3 amended: hacerLavado with waxing and without hand dry always fails  *)
(* and leaves ocupado unchanged; the error is the invalid-combination one *)
(* when the bay is free and the occupied one when the bay is occupied.    *)
C3_EnceradoSinSecadoRechazado ==
    (op = "hacerLavado" /\ ~args[2] /\ args[3]) =>
        /\ resultado = (IF prev.ocupado THEN ERR_OCUPADO ELSE ERR_ENCERADO)
        /\ self.ocupado = prev.ocupado

(* C3 witness: the combination is rejected on a free bay that has already *)
(* served a wash.                                                         *)
C3_Witness ==
    /\ op = "hacerLavado"
    /\ ~args[2]
    /\ args[3]
    /\ ~prev.ocupado
    /\ prev.ingresos # CERO
    /\ resultado = ERR_ENCERADO
    /\ ~self.ocupado

(* C4: in a cycle the advance out of the inactive phase adds exactly the  *)
(* price of the accepted options (5.00, plus 1.50, 1.20 and 1.00 by       *)
(* option), every other advance adds nothing, and when the cycle ends the *)
(* income has grown by exactly that price.                                *)
C4_IngresosDelCiclo ==
    (op = "avanzarFase" /\ prev.ocupado) =>
        /\ self.ingresos =
               suma_exacta(prev.ingresos,
                           IF prev.fase = FASE_INACTIVO
                           THEN euros(Tarifa(pedido)) ELSE CERO)
        /\ ~self.ocupado =>
               self.ingresos =
                   suma_exacta(ingresos_inicio, euros(Tarifa(pedido)))

(* C5: no call lowers the income; among hacerLavado, avanzarFase and      *)
(* terminar only an avanzarFase on an occupied bay in the inactive phase  *)
(* changes it; and that happens at most once per accepted wash.           *)
C5_IngresosSoloAlCobrar ==
    /\ menor_o_igual(prev.ingresos, self.ingresos)
    /\ (op \in {"hacerLavado", "avanzarFase", "terminar"}
            /\ self.ingresos # prev.ingresos) =>
           (op = "avanzarFase" /\ prev.ocupado /\ prev.fase = FASE_INACTIVO)
    /\ cobros_ciclo <= 1

(* C5 witness: the charge of a later cycle. *)
C5_Witness ==
    /\ op = "avanzarFase"
    /\ prev.ocupado
    /\ prev.fase = FASE_INACTIVO
    /\ prev.ingresos # CERO
    /\ self.ingresos # prev.ingresos
    /\ menor_o_igual(prev.ingresos, self.ingresos)
    /\ cobros_ciclo = 1

(* C6: avanzarFase on a free bay returns normally and changes none of the *)
(* six fields.                                                            *)
C6_AvanzarLibreNoHaceNada ==
    (op = "avanzarFase" /\ ~prev.ocupado) =>
        (resultado = OK /\ self = prev)

(* C6 witness: an advance on a free bay that has income. *)
C6_Witness ==
    /\ op = "avanzarFase"
    /\ ~prev.ocupado
    /\ prev.ingresos # CERO
    /\ self = prev

(* C7: terminar always succeeds and leaves the inactive phase, a free bay *)
(* and the three options false, with the income it found.                 *)
C7_TerminarReinicia ==
    (op = "terminar") =>
        /\ resultado = OK
        /\ self.fase = FASE_INACTIVO
        /\ ~self.ocupado
        /\ ~self.prelavado_a_mano
        /\ ~self.secado_a_mano
        /\ ~self.encerado
        /\ self.ingresos = prev.ingresos

(* C7 witness: terminar in the middle of a paid cycle with options. *)
C7_Witness ==
    /\ op = "terminar"
    /\ prev.ocupado
    /\ prev.fase = FASE_RODILLOS
    /\ prev.secado_a_mano
    /\ prev.ingresos # CERO
    /\ ~self.ocupado
    /\ self.ingresos = prev.ingresos

(* C8: ejecutar_y_obtener_fases on a free bay with an accepted            *)
(* combination returns inactive, charging, the hand pre-wash only if      *)
(* selected, water, soap, rollers, the automatic dry if hand dry was      *)
(* selected and the hand dry otherwise, inactive.                         *)
C8_FasesDelCiclo ==
    (op = "ejecutar_y_obtener_fases" /\ ~prev.ocupado /\ (args[3] => args[2]))
        => (resultado = OK /\ retorno = FasesEsperadas(args[1], args[2]))

(* C8 witness: scenario B, the three options, 7 transitions. *)
C8_Witness ==
    /\ op = "ejecutar_y_obtener_fases"
    /\ ~prev.ocupado
    /\ args = <<TRUE, TRUE, TRUE>>
    /\ retorno = <<0, 1, 2, 3, 4, 5, 6, 0>>

(* C9: whenever the bay is free the phase is inactive and the three       *)
(* options are false.                                                     *)
C9_LibreImplicaInactivo ==
    ~self.ocupado =>
        /\ self.fase = FASE_INACTIVO
        /\ ~self.prelavado_a_mano
        /\ ~self.secado_a_mano
        /\ ~self.encerado

(* C9 witness: the bay just freed by the last advance of a cycle that had *)
(* the waxing selected.                                                   *)
C9_Witness ==
    /\ op = "avanzarFase"
    /\ prev.ocupado
    /\ prev.encerado
    /\ ~self.ocupado

(* C10: the stored waxing option is never set without the stored hand dry *)
(* option.                                                                *)
C10_EnceradoImplicaSecado ==
    self.encerado => self.secado_a_mano

(* C10 witness: a wash with waxing in progress, after a rejected request  *)
(* for waxing without hand dry.                                           *)
C10_Witness ==
    /\ self.encerado
    /\ self.secado_a_mano
    /\ self.ocupado
    /\ op = "hacerLavado"
    /\ args = <<TRUE, FALSE, TRUE>>
    /\ resultado = ERR_OCUPADO

(* The three options stored in a bay, in the order of the arguments. *)
Opciones(b) ==
    <<b.prelavado_a_mano, b.secado_a_mano, b.encerado>>

(* The nine declared phases. *)
FasesDeclaradas ==
    {FASE_INACTIVO, FASE_COBRANDO, FASE_PRELAVADO_MANO, FASE_ECHANDO_AGUA,
     FASE_ENJABONANDO, FASE_RODILLOS, FASE_SECADO_AUTOMATICO,
     FASE_SECADO_MANO, FASE_ENCERADO}

(* The sum of the prices, in cents, of a sequence of accepted options. *)
RECURSIVE SumaTarifas(_)
SumaTarifas(q) ==
    IF q = <<>> THEN 0 ELSE Tarifa(Head(q)) + SumaTarifas(Tail(q))

(* C11: the waxing phase is never the current phase, never one of the     *)
(* phases a cycle went through and never in a returned list of phases,    *)
(* whatever the options.                                                  *)
C11_EnceradoInalcanzable ==
    /\ self.fase # FASE_ENCERADO
    /\ \A i \in 1..Len(recorrido) : recorrido[i] # FASE_ENCERADO
    /\ \A i \in 1..Len(retorno) : retorno[i] # FASE_ENCERADO

(* C11 witness: a wash with the waxing selected has left the rollers. *)
C11_Witness ==
    /\ op = "avanzarFase"
    /\ prev.ocupado
    /\ prev.fase = FASE_RODILLOS
    /\ prev.encerado
    /\ self.encerado
    /\ self.fase = FASE_SECADO_AUTOMATICO

(* C12: avanzarFase on an occupied bay at the rollers goes to the         *)
(* automatic dry when the hand dry is selected and to the hand dry when   *)
(* it is not, and changes no other field.                                 *)
C12_RodillosRamaInvertida ==
    (op = "avanzarFase" /\ prev.ocupado /\ prev.fase = FASE_RODILLOS) =>
        /\ resultado = OK
        /\ self = [prev EXCEPT !.fase = IF prev.secado_a_mano
                                        THEN FASE_SECADO_AUTOMATICO
                                        ELSE FASE_SECADO_MANO]

(* C12 witness: no hand dry selected, the bay enters the hand dry phase. *)
C12_Witness ==
    /\ op = "avanzarFase"
    /\ prev.ocupado
    /\ prev.fase = FASE_RODILLOS
    /\ ~prev.secado_a_mano
    /\ self.fase = FASE_SECADO_MANO

(* C13: hacerLavado on a free bay with an allowed combination succeeds,   *)
(* leaves the inactive phase, the bay occupied, the three options equal   *)
(* to the arguments and the income unchanged; the first advance after it  *)
(* is the one that changes the income.                                    *)
C13_AceptarNoCobra ==
    /\ (op = "hacerLavado" /\ ~prev.ocupado /\ (args[3] => args[2])) =>
           resultado = OK
    /\ (op = "hacerLavado" /\ resultado = OK) =>
           /\ self.fase = FASE_INACTIVO
           /\ self.ocupado
           /\ Opciones(self) = args
           /\ self.ingresos = prev.ingresos
    /\ (op = "avanzarFase" /\ prev.ocupado /\ avances = 1) =>
           (prev.fase = FASE_INACTIVO /\ self.ingresos # prev.ingresos)

(* C13 witness: a wash with hand dry only accepted on a bay with income. *)
C13_Witness ==
    /\ op = "hacerLavado"
    /\ resultado = OK
    /\ args = <<FALSE, TRUE, FALSE>>
    /\ prev.ingresos # CERO
    /\ self.ingresos = prev.ingresos
    /\ self.ocupado

(* C14: an avanzarFase taken on an occupied bay at the inactive,          *)
(* charging, pre-wash, water, soap or rollers phase leaves the three      *)
(* options and ocupado as they were, and while the bay is occupied the    *)
(* options are the arguments of the hacerLavado that started the cycle.   *)
C14_OpcionesFijasEnElCiclo ==
    /\ (op = "avanzarFase" /\ prev.ocupado
            /\ prev.fase \in {FASE_INACTIVO, FASE_COBRANDO,
                              FASE_PRELAVADO_MANO, FASE_ECHANDO_AGUA,
                              FASE_ENJABONANDO, FASE_RODILLOS}) =>
           (Opciones(self) = Opciones(prev) /\ self.ocupado = prev.ocupado)
    /\ self.ocupado => Opciones(self) = pedido

(* C14 witness: the three options still stored after the rollers fork. *)
C14_Witness ==
    /\ op = "avanzarFase"
    /\ prev.ocupado
    /\ prev.fase = FASE_RODILLOS
    /\ self.ocupado
    /\ pedido = <<TRUE, TRUE, TRUE>>
    /\ Opciones(self) = <<TRUE, TRUE, TRUE>>

(* C15: the phases of a cycle form a simple path: an advance that does    *)
(* not end the cycle goes to a larger phase number, no phase other than   *)
(* the inactive one is seen twice, at most 7 phases other than the        *)
(* inactive one are seen, and the advance that frees the bay returns to   *)
(* the inactive phase.                                                    *)
C15_CaminoSimple ==
    /\ \A i \in 1..(Len(recorrido) - 1) :
           recorrido[i + 1] # FASE_INACTIVO => recorrido[i + 1] > recorrido[i]
    /\ \A i \in 1..Len(recorrido) : \A j \in 1..Len(recorrido) :
           (i # j /\ recorrido[i] # FASE_INACTIVO) =>
               recorrido[i] # recorrido[j]
    /\ Cardinality({i \in 1..Len(recorrido) :
                        recorrido[i] # FASE_INACTIVO}) <= 7
    /\ (op = "avanzarFase" /\ prev.ocupado /\ ~self.ocupado) =>
           (self.fase = FASE_INACTIVO
            /\ recorrido[Len(recorrido)] = FASE_INACTIVO)

(* C15 witness: the longest path, ended by the advance out of the hand    *)
(* dry phase.                                                             *)
C15_Witness ==
    /\ op = "avanzarFase"
    /\ prev.ocupado
    /\ ~self.ocupado
    /\ recorrido = <<0, 1, 2, 3, 4, 5, 7, 0>>

(* C16: the phase is always one of the nine declared values and no call   *)
(* ends with the invalid-phase error.                                     *)
C16_FaseSiempreValida ==
    /\ self.fase \in FasesDeclaradas
    /\ resultado # ERR_FASE

(* C16 witness: an advance out of the hand dry phase returns normally. *)
C16_Witness ==
    /\ op = "avanzarFase"
    /\ prev.ocupado
    /\ prev.fase = FASE_SECADO_MANO
    /\ resultado = OK

(* C17: a hacerLavado that fails does so with the occupied error or the   *)
(* invalid-combination error and leaves the six fields as they were.      *)
C17_FalloAtomico ==
    (op = "hacerLavado" /\ resultado # OK) =>
        /\ resultado \in {ERR_OCUPADO, ERR_ENCERADO}
        /\ self = prev

(* C17 witness: waxing without hand dry rejected on a free bay, which     *)
(* stays inactive with the three options false.                           *)
C17_Witness ==
    /\ op = "hacerLavado"
    /\ args = <<TRUE, FALSE, TRUE>>
    /\ resultado = ERR_ENCERADO
    /\ ~self.ocupado
    /\ self.fase = FASE_INACTIVO
    /\ Opciones(self) = <<FALSE, FALSE, FALSE>>

(* C18: ejecutar_y_obtener_fases on a free bay with an allowed            *)
(* combination returns normally with the bay free, and its list has at    *)
(* most 9 phases, the first and the last being the inactive one.          *)
C18_EjecutarSinBucle ==
    (op = "ejecutar_y_obtener_fases" /\ ~prev.ocupado
         /\ (args[3] => args[2])) =>
        /\ resultado = OK
        /\ ~self.ocupado
        /\ Len(retorno) >= 1
        /\ Len(retorno) <= 9
        /\ Len(retorno) <= LIMITE_PASOS
        /\ retorno[1] = FASE_INACTIVO
        /\ retorno[Len(retorno)] = FASE_INACTIVO

(* C18 witness: a run with hand pre-wash on a bay with income returns 8   *)
(* phases.                                                                *)
C18_Witness ==
    /\ op = "ejecutar_y_obtener_fases"
    /\ resultado = OK
    /\ prev.ingresos # CERO
    /\ args[1]
    /\ Len(retorno) = 8
    /\ ~self.ocupado

(* C19: the income is always the sum of the prices of the washes that     *)
(* advanced out of the inactive phase, each counted once.                 *)
C19_IngresosAcumulados ==
    self.ingresos = euros(SumaTarifas(cobrados))

(* C20: in the pre-wash phase the hand pre-wash is selected; in the       *)
(* automatic dry phase the hand dry is selected; in the hand dry phase    *)
(* neither the hand dry nor the waxing is selected.                       *)
C20_FaseCoherenteConOpciones ==
    /\ self.fase = FASE_PRELAVADO_MANO => self.prelavado_a_mano
    /\ self.fase = FASE_SECADO_AUTOMATICO => self.secado_a_mano
    /\ self.fase = FASE_SECADO_MANO =>
           (~self.secado_a_mano /\ ~self.encerado)

(* C20 witness: a wash with hand pre-wash only in the hand dry phase. *)
C20_Witness ==
    /\ self.ocupado
    /\ self.fase = FASE_SECADO_MANO
    /\ self.prelavado_a_mano
    /\ ~self.secado_a_mano
    /\ ~self.encerado

====
